---- MODULE Spec2Model ----
(***************************************************************************)
(* A state-machine model of the ESP32 WiFi manager (src/wifimanager.cpp,   *)
(* src/wifimanager.h): the credential table and its NVS image, the radio   *)
(* as the manager drives it through the WiFi object, the soft-AP session,  *)
(* and the scheduler loop() run by the background task.                    *)
(*                                                                         *)
(* Every method of WIFIMANAGER is an operator from a state record to a     *)
(* state record, so that a method calling another one is the composition   *)
(* of the two operators, as in the code.  The record carries the fields of *)
(* the object, the platform objects it talks to (WiFi, preferences,        *)
(* millis()), the inputs of the current call (in), its return value (ret)  *)
(* and a log of the platform calls the handler made (ev).                  *)
(***************************************************************************)
EXTENDS Integers, Sequences, FiniteSets, TLC

VARIABLES
  apList,               \* apCredentials_t apList[WIFIMANAGER_MAX_APS]
  configuredSSIDs,      \* uint8_t configuredSSIDs
  nvs,                  \* the Preferences namespace: keys apName<i>, apPass<i>
  createFallbackAP,     \* bool createFallbackAP
  lastWifiCheckMillis,  \* uint64_t lastWifiCheckMillis
  startApTimeMillis,    \* uint64_t startApTimeMillis
  dnsServerActive,      \* volatile bool dnsServerActive
  WiFi,                 \* the platform's WiFi object: mode, status, SSID, AP clients
  air,                  \* the networks in range, in the order a scan reports them
  millis,               \* the value millis() returns
  wifiTask,             \* the task running wifiBgTask: none, first, running
  teardown,             \* the stopWifi call in progress: statements done, killTask
  lastScanRequest,      \* static uint64_t lastScanRequest of the /scan handler
  ev                    \* what the last handler did: its name, arguments, calls, result

vars == <<apList, configuredSSIDs, nvs, createFallbackAP, lastWifiCheckMillis,
          startApTimeMillis, dnsServerActive, WiFi, air, millis, wifiTask,
          teardown, lastScanRequest, ev>>

(***************************************************************************)
(* Bounds of the model and constants of the program.                       *)
(***************************************************************************)
\* The capacity of the table.  wifimanager.h:11-13 lets a build set it; the
\* header's default is 4.
WIFIMANAGER_MAX_APS == 3
\* The longest scan result list.
MaxScan == 2
\* addWifi is called only while configuredSSIDs is less than this much above
\* the capacity.
MaxDrift == 1
\* The clock wraps after this many steps of TimeStep.
ClockTicks == 4

\* The polls of one scan wait are counted modulo MaxPolls.
MaxPolls == 3

intervalWifiCheckMillis == 15000
SCAN_COOLDOWN_MS == 2000
timeoutApMillis == 120000
MaxNameLen == 31
MaxPassLen == 63
UInt8Mod == 256
\* The unsigned 64-bit differences of the code are taken modulo WordModulus.
\* TLC's integers are 32 bits wide, so the modulus is 2^30: like 2^64 it is
\* beyond every time of the model, and a wrapped difference stays above every
\* constant it is compared with.
WordModulus == 2^30
INT_MIN == -2147483647 - 1

\* One step of the clock, and the period after which millis() wraps.
TimeStep == 4 * intervalWifiCheckMillis
MillisWrap == ClockTicks * TimeStep

Slots == 0 .. (WIFIMANAGER_MAX_APS - 1)

\* wifi_mode_t as the set of enabled roles: WIFI_MODE_NULL, _STA, _AP, _APSTA.
WIFI_OFF == {}
WIFI_STA == {"STA"}
WIFI_AP == {"AP"}
WIFI_AP_STA == {"STA", "AP"}
WifiModes == {WIFI_OFF, WIFI_STA, WIFI_AP, WIFI_AP_STA}

WIFI_AUTH_OPEN == "OPEN"
WIFI_AUTH_WPA2_PSK == "WPA2"

Cred(n, p) == [apName |-> n, apPass |-> p]
EmptyCred == Cred("", "")

\* A string too long for an SSID (32 bytes) and one too long for a passphrase (64).
LongName == "nnnnnnnnnnnnnnnnnnnnnnnnnnnnnnnn"
LongPass == "pppppppppppppppppppppppppppppppppppppppppppppppppppppppppppppppp"

(***************************************************************************)
(* The state record.                                                       *)
(***************************************************************************)
\* The log of a handler that has done nothing yet: its name, result and
\* arguments (id is the index argument), the messages it passed to
\* logMessage, and the calls it made: loop() past its interval check,
\* tryConnect(), WiFi.scanNetworks(), WiFi.begin() (slot is the slot it was
\* called for) and startSoftAP().  INT_MIN stands for no index.
\* No stopWifi call is in progress.
NoTeardown == [done |-> 0, killTask |-> FALSE, radio |-> FALSE]

EvNone ==
  [op |-> "none", ret |-> FALSE, name |-> "", pass |-> "", id |-> INT_MIN,
   log |-> {}, evaluated |-> FALSE, tried |-> FALSE, scanned |-> FALSE,
   began |-> FALSE, slot |-> INT_MIN, apStart |-> FALSE, writes |-> 0,
   polls |-> 0, body |-> <<>>]

\* The inputs of one call: the outcome of each preferences.begin() in call
\* order, the status the connection attempt ends with, whether the platform
\* brings the soft AP up.
Inputs(nvsOk, connect, apOk) == [nvsOk |-> nvsOk, connect |-> connect, apOk |-> apOk]

State(op, in) ==
  [apList |-> apList, configuredSSIDs |-> configuredSSIDs, nvs |-> nvs,
   createFallbackAP |-> createFallbackAP,
   lastWifiCheckMillis |-> lastWifiCheckMillis,
   startApTimeMillis |-> startApTimeMillis,
   dnsServerActive |-> dnsServerActive, WiFi |-> WiFi, air |-> air,
   millis |-> millis, in |-> in, ret |-> FALSE,
   ev |-> [EvNone EXCEPT !.op = op]]

\* The members and the radio as the handler leaves them.
Assign(s) ==
  /\ apList' = s.apList
  /\ configuredSSIDs' = s.configuredSSIDs
  /\ nvs' = s.nvs
  /\ createFallbackAP' = s.createFallbackAP
  /\ lastWifiCheckMillis' = s.lastWifiCheckMillis
  /\ startApTimeMillis' = s.startApTimeMillis
  /\ dnsServerActive' = s.dnsServerActive
  /\ WiFi' = s.WiFi
  /\ ev' = [s.ev EXCEPT !.ret = s.ret]

Commit(s) == Assign(s) /\ UNCHANGED <<air, millis, teardown, lastScanRequest>>

Ret(s, r) == [s EXCEPT !.ret = r]

\* logMessage(msg), msg named by a short tag.
Log(s, tag) == [s EXCEPT !.ev.log = @ \cup {tag}]

(***************************************************************************)
(* Credential store: clearApList, loadFromNVS, writeToNVS, addWifi,        *)
(* delWifi(uint8_t), delWifi(String).                                      *)
(***************************************************************************)
\* preferences.begin(): the next outcome of the call's inputs (success when
\* the inputs name none).
PrefBeginOk(s) == IF s.in.nvsOk = <<>> THEN TRUE ELSE Head(s.in.nvsOk)
PrefBeginDone(s) ==
  IF s.in.nvsOk = <<>> THEN s ELSE [s EXCEPT !.in.nvsOk = Tail(@)]

clearApList(s) == [s EXCEPT !.apList = [i \in Slots |-> EmptyCred]]

RECURSIVE loadSlots(_, _)
loadSlots(s, i) ==
  IF i >= WIFIMANAGER_MAX_APS THEN s
  ELSE IF s.nvs[i].apName # ""
       THEN loadSlots([s EXCEPT !.apList[i] = s.nvs[i],
                                !.configuredSSIDs = (@ + 1) % UInt8Mod], i + 1)
       ELSE loadSlots(s, i + 1)

loadFromNVS(s) ==
  LET s0 == [s EXCEPT !.configuredSSIDs = 0]
  IN IF PrefBeginOk(s0)
     THEN Ret(loadSlots(clearApList(PrefBeginDone(s0)), 0), TRUE)
     ELSE Ret(Log(PrefBeginDone(s0), "nvs_unavailable"), FALSE)

\* A write without preferences.clear(): the keys of an empty slot stay.
writeToNVSNoClear(s) ==
  IF ~PrefBeginOk(s) THEN Ret(Log(PrefBeginDone(s), "nvs_write_failed"), FALSE)
  ELSE Ret([PrefBeginDone(s) EXCEPT
              !.nvs = [i \in Slots |->
                         IF s.apList[i].apName = "" THEN s.nvs[i]
                         ELSE s.apList[i]],
              !.ev.writes = @ + 1], TRUE)

\* preferences.clear(), then one apName/apPass pair per slot with a name.
writeToNVS(s) ==
  IF ~PrefBeginOk(s) THEN Ret(Log(PrefBeginDone(s), "nvs_write_failed"), FALSE)
  ELSE Ret([PrefBeginDone(s) EXCEPT
              !.nvs = [i \in Slots |->
                         IF s.apList[i].apName = "" THEN EmptyCred
                         ELSE s.apList[i]],
              !.ev.writes = @ + 1], TRUE)

\* A for loop that takes the last slot when it finds no unused one.
firstUnusedSlotOrLast(list, i) ==
  LET free == {k \in Slots : k >= i /\ list[k].apName = ""}
  IN IF free = {} THEN WIFIMANAGER_MAX_APS - 1
     ELSE CHOOSE k \in free : \A j \in free : k <= j

\* The slot the for loop of addWifi stops at: the first one with an empty
\* name, WIFIMANAGER_MAX_APS when there is none.
RECURSIVE firstUnusedSlot(_, _)
firstUnusedSlot(list, i) ==
  IF i >= WIFIMANAGER_MAX_APS THEN WIFIMANAGER_MAX_APS
  ELSE IF list[i].apName = "" THEN i
  ELSE firstUnusedSlot(list, i + 1)

\* addWifi that lets a name of MaxNameLen + 1 characters through.
addWifiLongName(s, apName, apPass, updateNVS) ==
  IF Len(apName) < 1 \/ Len(apName) > MaxNameLen + 1
  THEN Ret(Log(s, "ssid_invalid"), FALSE)
  ELSE IF Len(apPass) > MaxPassLen THEN Ret(Log(s, "pass_too_long"), FALSE)
  ELSE LET i == firstUnusedSlot(s.apList, 0)
       IN IF i < WIFIMANAGER_MAX_APS
          THEN LET s1 == [Log(s, "slot_found") EXCEPT
                            !.apList[i] = Cred(apName, apPass),
                            !.configuredSSIDs = (@ + 1) % UInt8Mod]
               IN IF updateNVS THEN writeToNVS(s1) ELSE Ret(s1, TRUE)
          ELSE Ret(Log(s, "no_slot"), FALSE)

addWifi(s, apName, apPass, updateNVS) ==
  IF Len(apName) < 1 \/ Len(apName) > MaxNameLen
  THEN Ret(Log(s, "ssid_invalid"), FALSE)
  ELSE IF Len(apPass) > MaxPassLen THEN Ret(Log(s, "pass_too_long"), FALSE)
  ELSE LET i == firstUnusedSlot(s.apList, 0)
       IN IF i < WIFIMANAGER_MAX_APS
          THEN LET s1 == [Log(s, "slot_found") EXCEPT
                            !.apList[i] = Cred(apName, apPass),
                            !.configuredSSIDs = (@ + 1) % UInt8Mod]
               IN IF updateNVS THEN writeToNVS(s1) ELSE Ret(s1, TRUE)
          ELSE Ret(Log(s, "no_slot"), FALSE)

\* delWifi(uint8_t) that clears the name and forgets the secret.
delWifiIdKeepsPass(s, apId) ==
  IF apId < WIFIMANAGER_MAX_APS
  THEN writeToNVS([s EXCEPT !.apList[apId].apName = ""])
  ELSE Ret(s, FALSE)

delWifiId(s, apId) ==
  IF apId < WIFIMANAGER_MAX_APS
  THEN writeToNVS([s EXCEPT !.apList[apId] = EmptyCred])
  ELSE Ret(s, FALSE)

\* The for loop of delWifi(String) from slot i on, num successes so far.
RECURSIVE delWifiLoop(_, _, _, _)
delWifiLoop(s, apName, i, num) ==
  IF i >= WIFIMANAGER_MAX_APS THEN [s |-> s, num |-> num]
  ELSE IF s.apList[i].apName = apName
       THEN LET s1 == delWifiId(s, i)
            IN delWifiLoop(s1, apName, i + 1, IF s1.ret THEN num + 1 ELSE num)
       ELSE delWifiLoop(s, apName, i + 1, num)

delWifiName(s, apName) ==
  LET r == delWifiLoop(s, apName, 0, 0)
  IN IF r.num > 0 THEN writeToNVS(r.s) ELSE Ret(r.s, FALSE)

configAvailable(s) == s.configuredSSIDs # 0

\* The number of slots that hold a name.
Populated(list) == Cardinality({i \in Slots : list[i].apName # ""})

(***************************************************************************)
(* The platform's WiFi object, as far as the manager uses it.              *)
(***************************************************************************)
WL_CONNECTED == "WL_CONNECTED"
WL_DISCONNECTED == "WL_DISCONNECTED"
WL_NO_SSID_AVAIL == "WL_NO_SSID_AVAIL"
WL_CONNECT_FAILED == "WL_CONNECT_FAILED"
ConnectOutcomes == {WL_CONNECTED, WL_NO_SSID_AVAIL, WL_CONNECT_FAILED, WL_DISCONNECTED}

\* WiFi.scanComplete(): the number of networks found, or one of these.
WIFI_SCAN_RUNNING == 0 - 1
WIFI_SCAN_FAILED == 0 - 2

WiFiOff ==
  [mode |-> WIFI_OFF, status |-> WL_DISCONNECTED, SSID |-> "", stations |-> 0,
   scan |-> WIFI_SCAN_FAILED, found |-> <<>>]

\* WiFi.mode(m): a role that is switched off loses its association.
WiFiSetMode(w, m) ==
  [mode |-> m,
   status |-> IF "STA" \in m THEN w.status ELSE WL_DISCONNECTED,
   SSID |-> IF "STA" \in m THEN w.SSID ELSE "",
   stations |-> IF "AP" \in m THEN w.stations ELSE 0,
   scan |-> w.scan, found |-> w.found]

\* WiFi.scanNetworks(true, true) enables the station role and leaves it
\* enabled ("scan changes mode, but won't return to the last state"), and
\* disconnects the clients of the soft AP ("scanNetworks is disconnecting
\* clients!").
WiFiScanNetworks(w) == [w EXCEPT !.mode = @ \cup WIFI_STA, !.stations = 0]

\* WiFi.scanNetworks(true, ...) as the /scan handler leaves it: the scan runs
\* on; WiFi.scanDelete(): the results are dropped.
WiFiScanStart(w) == [WiFiScanNetworks(w) EXCEPT !.scan = WIFI_SCAN_RUNNING]
WiFiScanDelete(w) == [w EXCEPT !.scan = WIFI_SCAN_FAILED, !.found = <<>>]

\* WiFi.softAP(name, pass) enables the access-point role beside the roles
\* already enabled.
WiFiSoftAP(w) == [w EXCEPT !.mode = @ \cup WIFI_AP]

\* WiFi.softAPdisconnect(false): the clients are gone, the mode stays.
WiFiSoftAPdisconnect(w) == [w EXCEPT !.stations = 0]

\* WiFi.disconnect(wifioff): the association ends; with wifioff the station
\* role is disabled as well.
WiFiDisconnect(w, wifioff) ==
  [w EXCEPT !.status = WL_DISCONNECTED, !.SSID = "",
            !.mode = IF wifioff THEN @ \ WIFI_STA ELSE @]

\* Whether the network `ssid` is in range and lets a station with this
\* passphrase in.
Joinable(scan, ssid, pass) ==
  \E x \in 1 .. Len(scan) :
     /\ scan[x].ssid = ssid
     /\ (scan[x].enc = WIFI_AUTH_OPEN \/ pass # "")

\* WiFi.begin(ssid, pass) followed by the wait for a terminal status.  An
\* empty ssid is refused at once and changes nothing; otherwise the old
\* association is dropped and the attempt ends as `outcome` says, connected
\* only to a network that is in range.
WiFiBegin(w, scan, ssid, pass, outcome) ==
  IF ssid = "" THEN w
  ELSE IF outcome = WL_CONNECTED /\ Joinable(scan, ssid, pass)
       THEN [w EXCEPT !.status = WL_CONNECTED, !.SSID = ssid]
       ELSE [w EXCEPT !.status = WL_DISCONNECTED, !.SSID = ""]

(***************************************************************************)
(* Radio methods of the manager.                                           *)
(***************************************************************************)
\* a - b in unsigned 64-bit arithmetic.
Sub64(a, b) == (a - b) % WordModulus

setMode(s, mode) == [s EXCEPT !.WiFi = WiFiSetMode(@, mode)]

RECURSIVE getApEntryFrom(_, _)
getApEntryFrom(list, i) ==
  IF i >= WIFIMANAGER_MAX_APS THEN WIFIMANAGER_MAX_APS
  ELSE IF Len(list[i].apName) > 0 THEN i
  ELSE getApEntryFrom(list, i + 1)

getApEntry(s) == getApEntryFrom(s.apList, 0)

\* The remaining time without the clamp of an underflowed difference.
getSoftApTimeRemainingUnclamped(s) ==
  Sub64(timeoutApMillis, Sub64(s.millis, s.startApTimeMillis)) \div 1000

getSoftApTimeRemaining(s) ==
  LET time == Sub64(timeoutApMillis, Sub64(s.millis, s.startApTimeMillis)) \div 1000
  IN IF time > timeoutApMillis THEN 0 ELSE time

stopSoftAP(s) ==
  Log(setMode([s EXCEPT !.dnsServerActive = FALSE,
                        !.WiFi = WiFiSoftAPdisconnect(@)], WIFI_OFF),
      "softap_stopped")

stopClient(s) ==
  setMode([s EXCEPT !.WiFi = WiFiDisconnect(@, FALSE)], WIFI_OFF)

\* stopWifi that never deletes the tasks.
stopWifiOrderNoKill(killTask) == <<"flag", "stopSoftAP", "stopClient">>

\* stopWifi that tears the radio down before it deletes the tasks.
stopWifiOrderRadioFirst(killTask) ==
  IF killTask THEN <<"flag", "stopSoftAP", "stopClient", "kill">>
  ELSE <<"flag", "stopSoftAP", "stopClient">>

\* The statements of stopWifi in program order: the flag, the two
\* vTaskDelete, stopSoftAP, then stopClient with the closing setMode.
stopWifiOrder(killTask) ==
  IF killTask THEN <<"flag", "kill", "stopSoftAP", "stopClient">>
  ELSE <<"flag", "stopSoftAP", "stopClient">>

stopWifiStatement(s, stmt) ==
  CASE stmt = "flag" -> [s EXCEPT !.dnsServerActive = FALSE]
    [] stmt = "kill" -> s
    [] stmt = "stopSoftAP" -> stopSoftAP(s)
    [] stmt = "stopClient" -> setMode(stopClient(s), WIFI_OFF)

startSoftAP(s) ==
  LET s0 == [s EXCEPT !.ev.apStart = TRUE]
  IN IF s0.WiFi.mode = WIFI_AP THEN Ret(s0, TRUE)
     ELSE LET s1 == [s0 EXCEPT !.startApTimeMillis = s0.millis]
          IN IF s1.in.apOk
             THEN Ret(Log([s1 EXCEPT !.WiFi = WiFiSoftAP(@),
                                     !.dnsServerActive = TRUE],
                          "softap_started"), TRUE)
             ELSE Ret(Log(s1, "softap_failed"), FALSE)

\* A connection attempt that checks the id only after stopping the soft AP.
tryConnectSpecificLateCheck(s, networkId) ==
  LET s1 == IF s.WiFi.mode = WIFI_AP THEN stopSoftAP(s) ELSE s
  IN IF networkId >= WIFIMANAGER_MAX_APS THEN Ret(Log(s1, "invalid_id"), FALSE)
     ELSE LET s2 == setMode(s1, WIFI_STA)
              s3 == [s2 EXCEPT
                       !.WiFi = WiFiBegin(@, s2.air, s2.apList[networkId].apName,
                                          s2.apList[networkId].apPass, s2.in.connect),
                       !.ev.began = TRUE, !.ev.slot = networkId]
          IN IF s3.WiFi.status = WL_CONNECTED
             THEN Ret(Log(s3, "connected"), TRUE)
             ELSE Ret([Log(s3, "connect_failed") EXCEPT
                         !.WiFi = WiFiDisconnect(@, TRUE)], FALSE)

\* A connection attempt that does not switch the radio to station mode first.
tryConnectSpecificNoSetMode(s, networkId) ==
  IF networkId >= WIFIMANAGER_MAX_APS THEN Ret(Log(s, "invalid_id"), FALSE)
  ELSE LET s1 == IF s.WiFi.mode = WIFI_AP THEN stopSoftAP(s) ELSE s
           s3 == [s1 EXCEPT
                    !.WiFi = WiFiBegin(@, s1.air, s1.apList[networkId].apName,
                                       s1.apList[networkId].apPass, s1.in.connect),
                    !.ev.began = TRUE, !.ev.slot = networkId]
       IN IF s3.WiFi.status = WL_CONNECTED
          THEN Ret(Log(s3, "connected"), TRUE)
          ELSE Ret(Log(s3, "connect_failed"), FALSE)

tryConnectSpecific(s, networkId) ==
  IF networkId >= WIFIMANAGER_MAX_APS THEN Ret(Log(s, "invalid_id"), FALSE)
  ELSE LET s1 == IF s.WiFi.mode = WIFI_AP THEN stopSoftAP(s) ELSE s
           s2 == setMode(s1, WIFI_STA)
           s3 == [s2 EXCEPT
                    !.WiFi = WiFiBegin(@, s2.air, s2.apList[networkId].apName,
                                       s2.apList[networkId].apPass, s2.in.connect),
                    !.ev.began = TRUE, !.ev.slot = networkId]
       IN IF s3.WiFi.status = WL_CONNECTED
          THEN Ret(Log(s3, "connected"), TRUE)
          ELSE Ret([Log(s3, "connect_failed") EXCEPT
                      !.WiFi = WiFiDisconnect(@, TRUE)], FALSE)

\* The /configlist handler that sends the secret itself.
RECURSIVE configListWithSecret(_, _)
configListWithSecret(list, i) ==
  IF i >= WIFIMANAGER_MAX_APS THEN <<>>
  ELSE IF Len(list[i].apName) > 0
       THEN <<[id |-> i, apName |-> list[i].apName, apPass |-> list[i].apPass]>>
            \o configListWithSecret(list, i + 1)
       ELSE configListWithSecret(list, i + 1)

\* The /configlist handler: the JSON array it sends, built from slot i on.
RECURSIVE configList(_, _)
configList(list, i) ==
  IF i >= WIFIMANAGER_MAX_APS THEN <<>>
  ELSE IF Len(list[i].apName) > 0
       THEN <<[id |-> i, apName |-> list[i].apName,
               apPass |-> Len(list[i].apPass) > 0]>>
            \o configList(list, i + 1)
       ELSE configList(list, i + 1)

\* The /scan handler after its rate limit: what WiFi.scanComplete() says
\* decides between starting a scan, listing the results, and an empty body.
scanCommand(s) ==
  IF s.WiFi.scan = WIFI_SCAN_FAILED
  THEN Log([s EXCEPT !.WiFi = WiFiScanStart(@)], "scanning")
  ELSE IF s.WiFi.scan > 0
       THEN Log([s EXCEPT !.ev.body = s.WiFi.found,
                          !.WiFi = WiFiScanDelete(@)], "results")
       ELSE Log(s, "empty")

\* The /connect handler: the id is range-checked before the attempt.
connectCommand(s, networkId) ==
  IF networkId < 0 \/ networkId >= WIFIMANAGER_MAX_APS
  THEN Ret(Log(s, "http_422"), FALSE)
  ELSE tryConnectSpecific(s, networkId)

\* The two loops with `rssi >= choosenRssi`: a later result of equal strength
\* replaces the choice.
RECURSIVE selectFromLast(_, _, _, _, _)
selectFromLast(list, scan, x, i, best) ==
  IF x > Len(scan) THEN best
  ELSE IF i >= WIFIMANAGER_MAX_APS THEN selectFromLast(list, scan, x + 1, 0, best)
  ELSE IF Len(list[i].apName) = 0 \/ list[i].apName # scan[x].ssid
       THEN selectFromLast(list, scan, x, i + 1, best)
  ELSE IF /\ scan[x].rssi >= best.choosenRssi
          /\ (scan[x].enc = WIFI_AUTH_OPEN \/ Len(list[i].apPass) > 0)
       THEN selectFromLast(list, scan, x, i + 1,
                           [choosenAp |-> i, choosenRssi |-> scan[x].rssi])
  ELSE selectFromLast(list, scan, x, i + 1, best)

\* The two nested for loops of tryConnect over the scan results x and the
\* slots i; best holds choosenAp and choosenRssi.
RECURSIVE selectFrom(_, _, _, _, _)
selectFrom(list, scan, x, i, best) ==
  IF x > Len(scan) THEN best
  ELSE IF i >= WIFIMANAGER_MAX_APS THEN selectFrom(list, scan, x + 1, 0, best)
  ELSE IF Len(list[i].apName) = 0 \/ list[i].apName # scan[x].ssid
       THEN selectFrom(list, scan, x, i + 1, best)
  ELSE IF /\ scan[x].rssi > best.choosenRssi
          /\ (scan[x].enc = WIFI_AUTH_OPEN \/ Len(list[i].apPass) > 0)
       THEN selectFrom(list, scan, x, i + 1,
                       [choosenAp |-> i, choosenRssi |-> scan[x].rssi])
  ELSE selectFrom(list, scan, x, i + 1, best)

selectAp(list, scan) ==
  selectFrom(list, scan, 1, 0, [choosenAp |-> INT_MIN, choosenRssi |-> INT_MIN]).choosenAp

\* The end of tryConnect: give up without a choice, else connect to it.
connectChoosen(s, choosenAp) ==
  IF choosenAp = INT_MIN THEN Ret(Log(s, "no_candidate"), FALSE)
  ELSE tryConnectSpecific(Log(s, "trying"), choosenAp)

\* The index tryConnect passes to tryConnectSpecific: the first populated
\* slot when one SSID is configured, else the choice from the scan results.
choosenAp(s) ==
  IF s.configuredSSIDs = 1 THEN getApEntry(s) ELSE selectAp(s.apList, s.air)

\* Whether tryConnect gets as far as calling tryConnectSpecific.
tryConnectChooses(s) ==
  /\ configAvailable(s)
  /\ s.configuredSSIDs = 1 \/ Len(s.air) > 0
  /\ choosenAp(s) # INT_MIN

\* The body of the /add handler for a well-formed request: the length
\* checks, then addWifi(apName, apPass).
addCommand(s, apName, apPass) ==
  IF Len(apName) < 1 \/ Len(apName) > MaxNameLen THEN Ret(Log(s, "http_422"), FALSE)
  ELSE IF Len(apPass) > MaxPassLen THEN Ret(Log(s, "http_422"), FALSE)
  ELSE LET s1 == addWifi(s, apName, apPass, TRUE)
       IN Log(s1, IF s1.ret THEN "http_200" ELSE "http_500")

\* The body of the DELETE /id handler for a well-formed request.
deleteCommand(s, id) ==
  IF id < 0 \/ id >= WIFIMANAGER_MAX_APS THEN Ret(Log(s, "http_422"), FALSE)
  ELSE IF s.apList[id].apName = "" THEN Ret(Log(s, "http_404"), FALSE)
  ELSE LET s1 == delWifiId(s, id)
       IN Log(s1, IF s1.ret THEN "http_200" ELSE "http_500")

\* tryConnect up to the wait for the scan: WiFi.scanNetworks(true, true).
tryConnectScan(s) ==
  [Log(s, "scanning") EXCEPT !.WiFi = WiFiScanNetworks(@), !.ev.scanned = TRUE]

\* tryConnect from the scan result on: WiFi.scanComplete() has answered
\* with something other than WIFI_SCAN_RUNNING.
tryConnectScanned(s) ==
  IF Len(s.air) <= 0
  THEN Ret(Log(setMode(s, WIFI_OFF), "no_networks"), FALSE)
  ELSE connectChoosen(s, selectAp(s.apList, s.air))

\* Whether tryConnect scans: there is a configuration of more than one SSID.
tryConnectScans(s) == configAvailable(s) /\ s.configuredSSIDs # 1

\* tryConnect that only reports the missing configuration.
tryConnectNoFallback(s) ==
  LET s0 == [s EXCEPT !.ev.tried = TRUE]
  IN IF ~configAvailable(s0)
     THEN Ret(Log(s0, "no_ssids"), FALSE)
     ELSE IF s0.configuredSSIDs = 1
          THEN connectChoosen(s0, getApEntry(s0))
          ELSE tryConnectScanned(tryConnectScan(s0))

tryConnect(s) ==
  LET s0 == [s EXCEPT !.ev.tried = TRUE]
  IN IF ~configAvailable(s0)
     THEN LET s1 == Log(s0, "no_ssids")
          IN Ret(IF s1.createFallbackAP THEN startSoftAP(s1) ELSE s1, FALSE)
     ELSE IF s0.configuredSSIDs = 1
          THEN connectChoosen(s0, getApEntry(s0))
          ELSE tryConnectScanned(tryConnectScan(s0))

\* loop that drops an association to a name it does not know.
loopDropsUnknown(s, force) ==
  IF ~force /\ Sub64(s.millis, s.lastWifiCheckMillis) < intervalWifiCheckMillis
  THEN s
  ELSE LET s0 == [s EXCEPT !.lastWifiCheckMillis = s.millis,
                           !.ev.evaluated = TRUE]
       IN IF s0.WiFi.mode = WIFI_AP
          THEN IF getSoftApTimeRemaining(s0) = 0
               THEN IF s0.WiFi.stations > 0
                    THEN [Log(s0, "reset_timeout") EXCEPT
                            !.startApTimeMillis = s0.millis]
                    ELSE stopSoftAP(Log(s0, "close_softap"))
               ELSE s0
          ELSE IF s0.WiFi.mode = WIFI_STA
               THEN IF /\ s0.WiFi.status = WL_CONNECTED
                       /\ s0.WiFi.SSID # ""
                       /\ \E i \in Slots : s0.WiFi.SSID = s0.apList[i].apName
                    THEN Log(s0, "known_ssid")
                    ELSE stopClient(Log(s0, "unknown_ssid"))
               ELSE LET s1 == tryConnect(s0)
                    IN IF ~s1.ret
                       THEN IF s1.createFallbackAP THEN startSoftAP(s1)
                            ELSE Log(s1, "fallback_disabled")
                       ELSE s1

\* loop that leaves the radio alone when it finds it neither in WIFI_AP nor
\* in WIFI_STA.
loopIdleWhenOff(s, force) ==
  IF ~force /\ Sub64(s.millis, s.lastWifiCheckMillis) < intervalWifiCheckMillis
  THEN s
  ELSE LET s0 == [s EXCEPT !.lastWifiCheckMillis = s.millis,
                           !.ev.evaluated = TRUE]
       IN IF s0.WiFi.mode = WIFI_AP
          THEN IF getSoftApTimeRemaining(s0) = 0
               THEN IF s0.WiFi.stations > 0
                    THEN [Log(s0, "reset_timeout") EXCEPT
                            !.startApTimeMillis = s0.millis]
                    ELSE stopSoftAP(Log(s0, "close_softap"))
               ELSE s0
          ELSE IF s0.WiFi.mode = WIFI_STA
               THEN IF /\ s0.WiFi.status = WL_CONNECTED
                       /\ s0.WiFi.SSID # ""
                       /\ \E i \in Slots : s0.WiFi.SSID = s0.apList[i].apName
                    THEN Log(s0, "known_ssid")
                    ELSE Log(s0, "unknown_ssid")
               ELSE s0

loop(s, force) ==
  IF ~force /\ Sub64(s.millis, s.lastWifiCheckMillis) < intervalWifiCheckMillis
  THEN s
  ELSE LET s0 == [s EXCEPT !.lastWifiCheckMillis = s.millis,
                           !.ev.evaluated = TRUE]
       IN IF s0.WiFi.mode = WIFI_AP
          THEN IF getSoftApTimeRemaining(s0) = 0
               THEN IF s0.WiFi.stations > 0
                    THEN [Log(s0, "reset_timeout") EXCEPT
                            !.startApTimeMillis = s0.millis]
                    ELSE stopSoftAP(Log(s0, "close_softap"))
               ELSE s0
          ELSE IF s0.WiFi.mode = WIFI_STA
               THEN IF /\ s0.WiFi.status = WL_CONNECTED
                       /\ s0.WiFi.SSID # ""
                       /\ \E i \in Slots : s0.WiFi.SSID = s0.apList[i].apName
                    THEN Log(s0, "known_ssid")
                    ELSE Log(s0, "unknown_ssid")
               ELSE LET s1 == tryConnect(s0)
                    IN IF ~s1.ret
                       THEN IF s1.createFallbackAP THEN startSoftAP(s1)
                            ELSE Log(s1, "fallback_disabled")
                       ELSE s1

startBackgroundTask(s) == tryConnect(loadFromNVS(s))

(***************************************************************************)
(* Actions: one per public method or command, per step of the background   *)
(* task, and per event of the environment.                                 *)
(***************************************************************************)
NoInputs == Inputs(<<>>, WL_DISCONNECTED, FALSE)

Call(op, in, name, pass, id) ==
  [State(op, in) EXCEPT !.ev.name = name, !.ev.pass = pass, !.ev.id = id]

\* The outcomes of the preferences.begin() calls of one delWifi(String): all
\* succeed, all fail, or only the first fails.
OkSeqs ==
  { [i \in 1 .. (WIFIMANAGER_MAX_APS + 1) |-> TRUE],
    [i \in 1 .. (WIFIMANAGER_MAX_APS + 1) |-> FALSE],
    [i \in 1 .. (WIFIMANAGER_MAX_APS + 1) |-> i > 1] }

\* The model follows the counter up to MaxDrift above the capacity.
AddWifi(apName, apPass, updateNVS, ok) ==
  LET s == addWifi(Call("addWifi", Inputs(<<ok>>, WL_DISCONNECTED, FALSE),
                        apName, apPass, INT_MIN),
                   apName, apPass, updateNVS)
  IN /\ s.configuredSSIDs <= WIFIMANAGER_MAX_APS + MaxDrift
     /\ Commit(s)
     /\ UNCHANGED wifiTask

DelWifiId(apId, ok) ==
  /\ Commit(delWifiId(Call("delWifiId", Inputs(<<ok>>, WL_DISCONNECTED, FALSE),
                           "", "", apId), apId))
  /\ UNCHANGED wifiTask

DelWifiName(apName, oks) ==
  /\ Commit(delWifiName(Call("delWifiName", Inputs(oks, WL_DISCONNECTED, FALSE),
                             apName, "", INT_MIN), apName))
  /\ UNCHANGED wifiTask

LoadFromNVS(ok) ==
  /\ Commit(loadFromNVS(State("loadFromNVS", Inputs(<<ok>>, WL_DISCONNECTED, FALSE))))
  /\ UNCHANGED wifiTask

TryConnect(connect, apOk) ==
  /\ Commit(tryConnect(State("tryConnect", Inputs(<<>>, connect, apOk))))
  /\ UNCHANGED wifiTask

\* tryConnect step by step: the call up to the wait loop (the whole call when
\* it does not scan), then one WiFi.scanComplete() per step. The polls are
\* counted modulo MaxPolls.
Resume(in) == [State(ev.op, in) EXCEPT !.ev = ev]

TryConnectBegin(connect, apOk) ==
  /\ ev.op # "scanWait"
  /\ LET s == State("tryConnect", Inputs(<<>>, connect, apOk))
     IN IF tryConnectScans(s)
        THEN Commit([tryConnectScan([s EXCEPT !.ev.tried = TRUE])
                       EXCEPT !.ev.op = "scanWait"])
        ELSE Commit(tryConnect(s))
  /\ UNCHANGED wifiTask

ScanPoll(running, connect, apOk) ==
  /\ ev.op = "scanWait"
  /\ IF running
     THEN /\ ev' = [ev EXCEPT !.polls = (@ + 1) % MaxPolls]
          /\ UNCHANGED <<apList, configuredSSIDs, nvs, createFallbackAP,
                         lastWifiCheckMillis, startApTimeMillis,
                         dnsServerActive, WiFi, air, millis, teardown, lastScanRequest>>
     ELSE Commit(tryConnectScanned([Resume(Inputs(<<>>, connect, apOk))
                                      EXCEPT !.ev.op = "tryConnect"]))
  /\ UNCHANGED wifiTask

\* tryConnect in two steps, the second being its call of tryConnectSpecific:
\* between the two, ev.op is "chosen", ev.id the index chosen and ev.name
\* and ev.pass the contents of that slot when it was chosen.
TryConnectChoose(connect, apOk) ==
  /\ ev.op # "chosen"
  /\ LET s == State("tryConnect", Inputs(<<>>, connect, apOk))
         s0 == [s EXCEPT !.ev.tried = TRUE]
         s1 == IF s0.configuredSSIDs = 1 THEN s0 ELSE tryConnectScan(s0)
         id == choosenAp(s)
     IN IF tryConnectChooses(s) /\ id < WIFIMANAGER_MAX_APS
        THEN Commit([Log(s1, "trying") EXCEPT
                       !.ev.op = "chosen", !.ev.id = id,
                       !.ev.name = s.apList[id].apName,
                       !.ev.pass = s.apList[id].apPass])
        ELSE Commit(tryConnect(s))
  /\ UNCHANGED wifiTask

TryConnectAttempt(connect) ==
  /\ ev.op = "chosen"
  /\ Commit(tryConnectSpecific([Resume(Inputs(<<>>, connect, FALSE))
                                  EXCEPT !.ev.op = "tryConnect"], ev.id))
  /\ UNCHANGED wifiTask

\* A command of the web server's task. It may run between the two steps of
\* tryConnect, which then goes on from where it was.
During(s) ==
  IF ev.op = "chosen" THEN [s EXCEPT !.ev = ev, !.ret = ev.ret] ELSE s

\* A radio method called by a handler of the web server while the task's
\* tryConnect is between its two steps.
CommandDuring(s) ==
  /\ ev.op = "chosen"
  /\ Commit(During(s))
  /\ UNCHANGED wifiTask

AddCommand(apName, apPass, ok) ==
  LET s == addCommand(Call("addCommand", Inputs(<<ok>>, WL_DISCONNECTED, FALSE),
                           apName, apPass, INT_MIN), apName, apPass)
  IN /\ s.configuredSSIDs <= WIFIMANAGER_MAX_APS + MaxDrift
     /\ Commit(During(s))
     /\ UNCHANGED wifiTask

DeleteCommand(id, ok) ==
  /\ Commit(During(deleteCommand(Call("deleteCommand",
                                      Inputs(<<ok>>, WL_DISCONNECTED, FALSE),
                                      "", "", id), id)))
  /\ UNCHANGED wifiTask

\* tryConnectSpecific called by the application with a uint8_t id.
TryConnectSpecific(networkId, connect) ==
  /\ Commit(tryConnectSpecific(Call("tryConnectSpecific",
                                    Inputs(<<>>, connect, FALSE),
                                    "", "", networkId), networkId))
  /\ UNCHANGED wifiTask

\* The /connect command with a well-formed body {"id": networkId}.
ConnectCommand(networkId, connect) ==
  /\ Commit(connectCommand(Call("connectCommand", Inputs(<<>>, connect, FALSE),
                                "", "", networkId), networkId))
  /\ UNCHANGED wifiTask

StartSoftAP(apOk) ==
  /\ Commit(startSoftAP(State("startSoftAP", Inputs(<<>>, WL_DISCONNECTED, apOk))))
  /\ UNCHANGED wifiTask

StopSoftAP ==
  /\ Commit(stopSoftAP(State("stopSoftAP", NoInputs)))
  /\ UNCHANGED wifiTask

StopClient ==
  /\ Commit(stopClient(State("stopClient", NoInputs)))
  /\ UNCHANGED wifiTask

FallbackToSoftAp(state) ==
  /\ Commit([State("fallbackToSoftAp", NoInputs) EXCEPT !.createFallbackAP = state])
  /\ UNCHANGED wifiTask

StartBackgroundTask(ok, connect, apOk) ==
  /\ wifiTask = "none"
  /\ Commit(startBackgroundTask(State("startBackgroundTask",
                                      Inputs(<<ok>>, connect, apOk))))
  /\ wifiTask' = "first"

\* wifiBgTask: loop(true) once, then loop() for ever.
BgTaskFirst(connect, apOk) ==
  /\ wifiTask = "first"
  /\ Commit(loop(State("loop", Inputs(<<>>, connect, apOk)), TRUE))
  /\ wifiTask' = "running"

BgTaskLoop(connect, apOk) ==
  /\ wifiTask = "running"
  /\ Commit(loop(State("loop", Inputs(<<>>, connect, apOk)), FALSE))
  /\ UNCHANGED wifiTask

\* GET /configlist.
ConfigList ==
  /\ Commit([State("configList", NoInputs) EXCEPT !.ev.body = configList(apList, 0)])
  /\ UNCHANGED wifiTask

\* GET /scan.
ScanCommand ==
  /\ IF Sub64(millis, lastScanRequest) < SCAN_COOLDOWN_MS
     THEN Commit(Log(State("scanCommand", NoInputs), "http_429"))
     ELSE /\ Assign(scanCommand(State("scanCommand", NoInputs)))
          /\ lastScanRequest' = millis
          /\ UNCHANGED <<air, millis, teardown>>
  /\ UNCHANGED wifiTask

\* The platform ends the scan that is running with the networks in range.
ScanDone ==
  /\ WiFi.scan = WIFI_SCAN_RUNNING
  /\ WiFi' = [WiFi EXCEPT !.scan = Len(air), !.found = air]
  /\ ev' = [EvNone EXCEPT !.op = "scanDone"]
  /\ UNCHANGED <<apList, configuredSSIDs, nvs, createFallbackAP,
                 lastWifiCheckMillis, startApTimeMillis, dnsServerActive,
                 air, millis, wifiTask, teardown, lastScanRequest>>

\* dnsBgTask, one turn of its loop. The task lives as long as wifiBgTask.
DnsTask ==
  /\ wifiTask # "none"
  /\ ev' = [EvNone EXCEPT !.op = "dnsBgTask",
                          !.log = IF dnsServerActive THEN {"dns_processed"} ELSE {}]
  /\ UNCHANGED <<apList, configuredSSIDs, nvs, createFallbackAP,
                 lastWifiCheckMillis, startApTimeMillis, dnsServerActive,
                 WiFi, air, millis, wifiTask, teardown, lastScanRequest>>

\* stopWifi(killTask), one statement per step. The task handles are never
\* initialised nor reset: vTaskDelete without a live task behind the handle
\* either returns or ends the caller (survives).
StopWifi(killTask, survives) ==
  LET order == stopWifiOrder(killTask)
      stmt == order[teardown.done + 1]
      stale == stmt = "kill" /\ wifiTask = "none"
      s0 == Log(State("stopWifi", NoInputs), stmt)
      s == stopWifiStatement(IF killTask THEN Log(s0, "killTask") ELSE s0, stmt)
      last == teardown.done + 1 = Len(order)
  IN /\ teardown.done # 0 => killTask = teardown.killTask
     /\ ~stale => survives
     /\ Assign(IF survives THEN s ELSE Log(s, "caller_lost"))
     /\ wifiTask' = IF stmt = "kill" THEN "none" ELSE wifiTask
     /\ teardown' = IF last \/ ~survives THEN NoTeardown
                    ELSE [done |-> teardown.done + 1, killTask |-> killTask,
                          radio |-> teardown.radio
                                    \/ stmt \in {"stopSoftAP", "stopClient"}]
     /\ UNCHANGED <<air, millis, lastScanRequest>>

\* The environment: time passes, a client joins or leaves the soft AP, the
\* station loses its network, the networks in range change.
Event(op) == ev' = [EvNone EXCEPT !.op = op]

TimePasses ==
  /\ millis' = (millis + TimeStep) % MillisWrap
  /\ Event("timePasses")
  /\ UNCHANGED <<apList, configuredSSIDs, nvs, createFallbackAP,
                 lastWifiCheckMillis, startApTimeMillis, dnsServerActive,
                 WiFi, air, wifiTask, teardown, lastScanRequest>>

\* Half a check interval passes.
MomentPasses ==
  /\ millis' = (millis + intervalWifiCheckMillis \div 2) % MillisWrap
  /\ Event("momentPasses")
  /\ UNCHANGED <<apList, configuredSSIDs, nvs, createFallbackAP,
                 lastWifiCheckMillis, startApTimeMillis, dnsServerActive,
                 WiFi, air, wifiTask, teardown, lastScanRequest>>

ClientJoins ==
  /\ "AP" \in WiFi.mode
  /\ WiFi.stations = 0
  /\ WiFi' = [WiFi EXCEPT !.stations = 1]
  /\ Event("clientJoins")
  /\ UNCHANGED <<apList, configuredSSIDs, nvs, createFallbackAP,
                 lastWifiCheckMillis, startApTimeMillis, dnsServerActive,
                 air, millis, wifiTask, teardown, lastScanRequest>>

ClientLeaves ==
  /\ WiFi.stations > 0
  /\ WiFi' = [WiFi EXCEPT !.stations = 0]
  /\ Event("clientLeaves")
  /\ UNCHANGED <<apList, configuredSSIDs, nvs, createFallbackAP,
                 lastWifiCheckMillis, startApTimeMillis, dnsServerActive,
                 air, millis, wifiTask, teardown, lastScanRequest>>

StationLost ==
  /\ WiFi.status = WL_CONNECTED
  /\ WiFi' = [WiFi EXCEPT !.status = WL_DISCONNECTED, !.SSID = ""]
  /\ Event("stationLost")
  /\ UNCHANGED <<apList, configuredSSIDs, nvs, createFallbackAP,
                 lastWifiCheckMillis, startApTimeMillis, dnsServerActive,
                 air, millis, wifiTask, teardown, lastScanRequest>>

AirChanges(scan) ==
  /\ air' = scan
  /\ air' # air
  /\ Event("airChanges")
  /\ UNCHANGED <<apList, configuredSSIDs, nvs, createFallbackAP,
                 lastWifiCheckMillis, startApTimeMillis, dnsServerActive,
                 WiFi, millis, wifiTask, teardown, lastScanRequest>>

(***************************************************************************)
(* Specifications.                                                         *)
(***************************************************************************)
Net(ssid, enc, rssi) == [ssid |-> ssid, enc |-> enc, rssi |-> rssi]

EmptyTable == [i \in Slots |-> EmptyCred]

\* The state after construction, with the NVS image and the networks in
\* range that the device wakes up to.
Constructed(image, scan) ==
  /\ apList = EmptyTable
  /\ configuredSSIDs = 0
  /\ nvs = image
  /\ createFallbackAP = TRUE
  /\ lastWifiCheckMillis = 0
  /\ startApTimeMillis = 0
  /\ dnsServerActive = FALSE
  /\ WiFi = WiFiOff
  /\ air = scan
  /\ millis = 0
  /\ wifiTask = "none"
  /\ teardown = NoTeardown
  /\ lastScanRequest = 0
  /\ ev = EvNone

\* Credential store alone.
StoreNames == {"a", "b"}
StoreArgs ==
  { Cred("a", "p"), Cred("b", ""), Cred("", "p"), Cred(LongName, "p"),
    Cred("a", LongPass) }

InitStore == Constructed(EmptyTable, <<>>)

NextStore ==
  \/ \E c \in StoreArgs, u \in BOOLEAN, ok \in BOOLEAN :
        AddWifi(c.apName, c.apPass, u, ok)
  \/ \E id \in 0 .. WIFIMANAGER_MAX_APS, ok \in BOOLEAN : DelWifiId(id, ok)
  \/ \E n \in StoreNames \cup {""}, oks \in OkSeqs : DelWifiName(n, oks)
  \/ \E ok \in BOOLEAN : LoadFromNVS(ok)

StoreSpec == InitStore /\ [][NextStore]_vars

\* Selection among the scan results: the tables and the networks in range a
\* call of tryConnect can meet, the counter as loadFromNVS leaves it.
SelectCreds == {EmptyCred, Cred("a", "p"), Cred("a", ""), Cred("b", "p")}
SelectTables == [Slots -> SelectCreds]
SelectNets ==
  {Net(n, e, r) : n \in {"a", "b"}, e \in {WIFI_AUTH_OPEN, WIFI_AUTH_WPA2_PSK},
                  r \in {-70, -50}} \cup {Net("c", WIFI_AUTH_OPEN, -50)}
SelectAirs == UNION {[1 .. n -> SelectNets] : n \in 0 .. MaxScan}
AttemptOutcomes == {WL_CONNECTED, WL_CONNECT_FAILED}

InitSelect ==
  \E table \in SelectTables, scan \in SelectAirs :
     /\ nvs = table
     /\ apList = table
     /\ configuredSSIDs = Populated(table)
     /\ createFallbackAP = TRUE
     /\ lastWifiCheckMillis = 0
     /\ startApTimeMillis = 0
     /\ dnsServerActive = FALSE
     /\ WiFi = WiFiOff
     /\ air = scan
     /\ millis = 0
     /\ wifiTask = "none"
     /\ teardown = NoTeardown
  /\ lastScanRequest = 0
     /\ lastScanRequest = 0
     /\ ev = EvNone

NextSelect == \E connect \in AttemptOutcomes, apOk \in BOOLEAN : TryConnect(connect, apOk)

SelectSpec == InitSelect /\ [][NextSelect]_vars

\* Connection attempts on a store built by addWifi and delWifi(uint8_t).
TableOf(creds) ==
  [i \in Slots |-> IF i < Len(creds) THEN creds[i + 1] ELSE EmptyCred]

SchedAirs ==
  { <<>>, <<Net("a", WIFI_AUTH_WPA2_PSK, -50)>>, <<Net("b", WIFI_AUTH_WPA2_PSK, -50)>> }

InitConnect == \E scan \in SchedAirs : Constructed(EmptyTable, scan)

NextConnect ==
  \/ \E c \in {Cred("a", "p"), Cred("b", "")} : AddWifi(c.apName, c.apPass, TRUE, TRUE)
  \/ \E id \in Slots : DelWifiId(id, TRUE)
  \/ \E connect \in AttemptOutcomes, apOk \in BOOLEAN : TryConnect(connect, apOk)

ConnectSpec == InitConnect /\ [][NextConnect]_vars

\* The manager at work: started once, then the background task, the clock,
\* the radio's surroundings and the commands of the application.
\* The ids a caller passes: the slots, the first id past them and the largest
\* uint8_t for the method, an int from -1 on for the /connect command.
MethodIds == Slots \cup {WIFIMANAGER_MAX_APS, UInt8Mod - 1}
CommandIds == (0 - 1) .. WIFIMANAGER_MAX_APS

BootImages ==
  { EmptyTable, TableOf(<<Cred("a", "p")>>), TableOf(<<Cred("a", "p"), Cred("b", "")>>) }

Init == \E image \in BootImages, scan \in SchedAirs : Constructed(image, scan)

TaskStep ==
  \/ \E ok \in BOOLEAN, connect \in AttemptOutcomes, apOk \in BOOLEAN :
        StartBackgroundTask(ok, connect, apOk)
  \/ \E connect \in AttemptOutcomes, apOk \in BOOLEAN : BgTaskFirst(connect, apOk)
  \/ \E connect \in AttemptOutcomes, apOk \in BOOLEAN : BgTaskLoop(connect, apOk)

Surroundings ==
  \/ TimePasses
  \/ ClientJoins
  \/ ClientLeaves
  \/ StationLost
  \/ \E scan \in SchedAirs : AirChanges(scan)

Command ==
  \/ \E apOk \in BOOLEAN : StartSoftAP(apOk)
  \/ StopSoftAP
  \/ StopClient
  \/ \E id \in MethodIds, connect \in AttemptOutcomes : TryConnectSpecific(id, connect)
  \/ \E id \in CommandIds, connect \in AttemptOutcomes : ConnectCommand(id, connect)
  \/ \E connect \in AttemptOutcomes, apOk \in BOOLEAN : TryConnect(connect, apOk)
  \/ \E state \in BOOLEAN : FallbackToSoftAp(state)

Next == TaskStep \/ Surroundings \/ Command

Spec == Init /\ [][Next]_vars

\* Without commands: the background task runs on, again and again, and time
\* does not stop.
NextAlone == TaskStep \/ Surroundings

FairSpec ==
  /\ Init
  /\ [][NextAlone]_vars
  /\ WF_vars(TimePasses)
  /\ WF_vars(TaskStep)

\* The background task and the surroundings, the networks in range fixed,
\* with the two stop commands. The
\* task calls loop() every 10 s, more often than the check interval and than
\* the clock of the model advances: a check that falls due again and again
\* is made.
StopCommand == StopSoftAP \/ StopClient

EvaluatedTick ==
  /\ \E connect \in AttemptOutcomes, apOk \in BOOLEAN :
        BgTaskFirst(connect, apOk) \/ BgTaskLoop(connect, apOk)
  /\ ev'.evaluated

NextStop ==
  \/ TaskStep
  \/ TimePasses
  \/ ClientJoins
  \/ ClientLeaves
  \/ StationLost
  \/ StopCommand

StopFairSpec ==
  /\ Init
  /\ [][NextStop]_vars
  /\ WF_vars(TimePasses)
  /\ WF_vars(TaskStep)
  /\ SF_vars(EvaluatedTick)

\* The /configlist command on every table of these entries.
ListCreds ==
  {EmptyCred} \cup {Cred(n, p) : n \in {"a", "b"}, p \in {"", "p", "q"}}

InitList ==
  \E table \in [Slots -> ListCreds] :
     /\ nvs = table
     /\ apList = table
     /\ configuredSSIDs = Populated(table)
     /\ createFallbackAP = TRUE
     /\ lastWifiCheckMillis = 0
     /\ startApTimeMillis = 0
     /\ dnsServerActive = FALSE
     /\ WiFi = WiFiOff
     /\ air = <<>>
     /\ millis = 0
     /\ wifiTask = "none"
     /\ teardown = NoTeardown
     /\ lastScanRequest = 0
     /\ ev = EvNone

NextList == ConfigList

ListSpec == InitList /\ [][NextList]_vars

\* The /scan command, called again and again while time passes, the scans
\* end and the networks in range change.
ScanAirs == SchedAirs \cup { <<Net("a", WIFI_AUTH_OPEN, -70), Net("b", WIFI_AUTH_WPA2_PSK, -50)>> }

InitScan == \E scan \in ScanAirs : Constructed(EmptyTable, scan)

NextScan ==
  \/ ScanCommand
  \/ ScanDone
  \/ TimePasses
  \/ \E scan \in ScanAirs : AirChanges(scan)

\* A call that the rate limit lets through: the caller waits out the
\* cooldown between calls.
AdmittedScan == ScanCommand /\ "http_429" \notin ev'.log

ScanFairSpec ==
  /\ InitScan
  /\ [][NextScan]_vars
  /\ SF_vars(AdmittedScan)
  /\ WF_vars(ScanDone)
  /\ WF_vars(TimePasses)

\* The background task while the application deletes stored networks, among
\* them the one the station is associated to.
NextTick ==
  \/ TaskStep
  \/ TimePasses
  \/ StationLost
  \/ \E id \in Slots : DelWifiId(id, TRUE)

TickSpec == Init /\ [][NextTick]_vars

\* The background task against a clock that also moves by less than the
\* check interval.
NextLoop ==
  \/ TaskStep
  \/ TimePasses
  \/ MomentPasses

LoopSpec == Init /\ [][NextLoop]_vars

\* Teardown: the application starts the tasks and stops the WiFi, statement
\* by statement, while the tasks run.
NextTeardown ==
  \/ /\ teardown.done = 0
     /\ \E ok \in BOOLEAN, connect \in AttemptOutcomes, apOk \in BOOLEAN :
           StartBackgroundTask(ok, connect, apOk)
  \/ \E connect \in AttemptOutcomes, apOk \in BOOLEAN : BgTaskFirst(connect, apOk)
  \/ \E connect \in AttemptOutcomes, apOk \in BOOLEAN : BgTaskLoop(connect, apOk)
  \/ DnsTask
  \/ \E killTask \in BOOLEAN, survives \in BOOLEAN : StopWifi(killTask, survives)

TeardownSpec == Init /\ [][NextTeardown]_vars

\* The same with the clock: the tasks are scheduled as long as they exist,
\* and a check that falls due again and again is made.
InitStopWifi ==
  \E image \in {EmptyTable, TableOf(<<Cred("a", "p")>>)} :
     Constructed(image, <<Net("a", WIFI_AUTH_WPA2_PSK, -50)>>)

NextStopWifi ==
  \/ /\ teardown.done = 0
     /\ \E connect \in AttemptOutcomes, apOk \in BOOLEAN :
           StartBackgroundTask(TRUE, connect, apOk)
  \/ \E connect \in AttemptOutcomes, apOk \in BOOLEAN : BgTaskFirst(connect, apOk)
  \/ \E connect \in AttemptOutcomes, apOk \in BOOLEAN : BgTaskLoop(connect, apOk)
  \/ DnsTask
  \/ \E killTask \in BOOLEAN, survives \in BOOLEAN : StopWifi(killTask, survives)
  \/ TimePasses

StopWifiFairSpec ==
  /\ InitStopWifi
  /\ [][NextStopWifi]_vars
  /\ WF_vars(TimePasses)
  /\ WF_vars(\E connect \in AttemptOutcomes, apOk \in BOOLEAN :
                BgTaskFirst(connect, apOk) \/ BgTaskLoop(connect, apOk))
  /\ SF_vars(EvaluatedTick)

\* A connection attempt of the background task and the credential commands
\* of the web server's task, which is another task of the scheduler.
RaceArgs == { Cred("b", "q"), Cred("c", "") }

RaceAirs ==
  { <<Net("a", WIFI_AUTH_WPA2_PSK, -50)>>,
    <<Net("a", WIFI_AUTH_WPA2_PSK, -70), Net("b", WIFI_AUTH_WPA2_PSK, -50)>> }

InitRace == \E image \in BootImages, scan \in RaceAirs : Constructed(image, scan)

NextRace ==
  \/ ev.op # "chosen" /\ LoadFromNVS(TRUE)
  \/ \E connect \in AttemptOutcomes, apOk \in BOOLEAN : TryConnectChoose(connect, apOk)
  \/ \E connect \in AttemptOutcomes : TryConnectAttempt(connect)
  \/ \E c \in RaceArgs : AddCommand(c.apName, c.apPass, TRUE)
  \/ \E id \in Slots : DeleteCommand(id, TRUE)

RaceSpec == InitRace /\ [][NextRace]_vars

\* A connection attempt of the background task and the radio commands of the
\* web server's task.
NextOverlap ==
  \/ ev.op # "chosen" /\ LoadFromNVS(TRUE)
  \/ \E connect \in AttemptOutcomes, apOk \in BOOLEAN : TryConnectChoose(connect, apOk)
  \/ \E connect \in AttemptOutcomes : TryConnectAttempt(connect)
  \/ \E apOk \in BOOLEAN :
        \/ ev.op # "chosen" /\ StartSoftAP(apOk)
        \/ CommandDuring(startSoftAP(State("startSoftAP",
                                           Inputs(<<>>, WL_DISCONNECTED, apOk))))
  \/ ev.op # "chosen" /\ StopSoftAP
  \/ CommandDuring(stopSoftAP(State("stopSoftAP", NoInputs)))
  \/ ev.op # "chosen" /\ StopClient
  \/ CommandDuring(stopClient(State("stopClient", NoInputs)))
  \/ \E id \in Slots, connect \in AttemptOutcomes :
        \/ ev.op # "chosen" /\ ConnectCommand(id, connect)
        \/ CommandDuring(connectCommand(Call("connectCommand",
                                             Inputs(<<>>, connect, FALSE),
                                             "", "", id), id))

OverlapSpec == InitRace /\ [][NextOverlap]_vars

\* tryConnect step by step from a loaded table: the caller keeps polling, the
\* platform answers as it likes.
NextWait ==
  \/ \E connect \in AttemptOutcomes, apOk \in BOOLEAN : TryConnectBegin(connect, apOk)
  \/ \E running \in BOOLEAN, connect \in AttemptOutcomes, apOk \in BOOLEAN :
        ScanPoll(running, connect, apOk)

WaitTables ==
  BootImages \cup { TableOf(<<Cred("a", ""), Cred("b", "p")>>),
                    TableOf(<<Cred("b", "p"), Cred("a", "p"), Cred("a", "")>>) }

WaitAirs ==
  SchedAirs \cup { <<Net("a", WIFI_AUTH_OPEN, -70), Net("b", WIFI_AUTH_WPA2_PSK, -50)>>,
                   <<Net("c", WIFI_AUTH_OPEN, -50)>> }

\* The table has been loaded from the store.
InitWait ==
  \E table \in WaitTables, scan \in WaitAirs :
     /\ nvs = table
     /\ apList = table
     /\ configuredSSIDs = Populated(table)
     /\ createFallbackAP = TRUE
     /\ lastWifiCheckMillis = 0
     /\ startApTimeMillis = 0
     /\ dnsServerActive = FALSE
     /\ WiFi = WiFiOff
     /\ air = scan
     /\ millis = 0
     /\ wifiTask = "none"
     /\ teardown = NoTeardown
  /\ lastScanRequest = 0
     /\ lastScanRequest = 0
     /\ ev = EvNone
WaitSpec ==
  /\ InitWait
  /\ [][NextWait]_vars
  /\ WF_vars(\E running \in BOOLEAN, connect \in AttemptOutcomes, apOk \in BOOLEAN :
                ScanPoll(running, connect, apOk))

(***************************************************************************)
(* Properties of the credential store (StoreSpec).                         *)
(***************************************************************************)
ValidName(n) == Len(n) >= 1 /\ Len(n) <= MaxNameLen
ValidPass(p) == Len(p) <= MaxPassLen
Full(list) == Populated(list) = WIFIMANAGER_MAX_APS

\* C1: after any sequence of addWifi, delWifi (by slot or by name) and
\* loadFromNVS, configuredSSIDs equals the number of slots of apList whose
\* name is not empty.
C1_CounterEqualsPopulated == configuredSSIDs = Populated(apList)

\* C10: addWifi with a valid name and secret on a table whose slots are all
\* populated returns false and leaves every slot as it was.
C10_AddToFullTableFails ==
  [][(/\ ev'.op = "addWifi"
      /\ ValidName(ev'.name) /\ ValidPass(ev'.pass)
      /\ Full(apList))
     => (~ev'.ret /\ apList' = apList)]_vars

\* A valid addWifi has just been refused for want of a slot, the table full.
C10_Witness ==
  /\ ev.op = "addWifi"
  /\ ValidName(ev.name) /\ ValidPass(ev.pass)
  /\ "no_slot" \in ev.log
  /\ ~ev.ret
  /\ Full(apList)

(***************************************************************************)
(* Properties of the selection in tryConnect (SelectSpec, ConnectSpec).    *)
(***************************************************************************)
\* The pairs <<x, i>> of a scan result and a slot with that result's name.
Matches(list, scan) ==
  {p \in (1 .. Len(scan)) \X Slots :
     list[p[2]].apName # "" /\ list[p[2]].apName = scan[p[1]].ssid}

\* Those the manager may connect to: the network open, or a secret stored.
Eligible(list, scan) ==
  {p \in Matches(list, scan) :
     scan[p[1]].enc = WIFI_AUTH_OPEN \/ list[p[2]].apPass # ""}

Strongest(list, scan) ==
  {p \in Eligible(list, scan) :
     \A q \in Eligible(list, scan) : scan[q[1]].rssi <= scan[p[1]].rssi}

\* The strongest eligible pair that the loops meet first.
FirstStrongest(list, scan) ==
  CHOOSE p \in Strongest(list, scan) :
     \A q \in Strongest(list, scan) :
        p[1] < q[1] \/ (p[1] = q[1] /\ p[2] <= q[2])

\* C3: with more than one credential configured, tryConnect connects to the
\* slot of an eligible scan result of maximum signal strength, whatever the
\* order of the results, and among results of equal strength to the one that
\* comes first in the scan.
C3_StrongestEligibleChosen ==
  (/\ ev.op = "tryConnect"
   /\ configuredSSIDs > 1
   /\ Eligible(apList, air) # {})
  => (/\ ev.scanned
      /\ ev.began
      /\ ev.slot = FirstStrongest(apList, air)[2])

\* tryConnect has passed over a weaker eligible result that came first in the
\* scan and has taken the slot of the stronger one.
C3_Witness ==
  /\ ev.op = "tryConnect"
  /\ ev.scanned /\ ev.began
  /\ \E p \in Eligible(apList, air), q \in Eligible(apList, air) :
        /\ p[1] < q[1]
        /\ p[2] # q[2]
        /\ air[p[1]].rssi < air[q[1]].rssi
        /\ ev.slot = q[2]

\* C4: whenever exactly one slot is populated, tryConnect does not scan and
\* attempts a connection to that slot.
C4_SingleCredentialSkipsScan ==
  (ev.op = "tryConnect" /\ Populated(apList) = 1)
  => (/\ ~ev.scanned
      /\ ev.began
      /\ ev.slot = getApEntryFrom(apList, 0))

\* C5: when tryConnect scans and no scan result that matches a stored name
\* is eligible, it returns false, starts no connection and does not switch
\* the radio's station role on.
C5_NoCandidateLeavesRadio ==
  [][(/\ ev'.op = "tryConnect"
      /\ ev'.scanned
      /\ Eligible(apList, air) = {})
     => (/\ ~ev'.ret
         /\ ~ev'.began
         /\ ("STA" \notin WiFi.mode => "STA" \notin WiFi'.mode))]_vars

(***************************************************************************)
(* Properties of the background task and the radio (Spec, FairSpec).       *)
(***************************************************************************)
\* C2: when the station has lost its network, the mode still WIFI_STA, and
\* no command arrives, a later tick of the background task calls tryConnect.
C2_LostStationReconnects ==
  (ev.op = "stationLost" /\ WiFi.mode = WIFI_STA /\ wifiTask # "none")
  ~> (ev.op = "loop" /\ ev.tried)

\* The AP session has lasted longer than timeoutApMillis.
PastTimeout == millis - startApTimeMillis > timeoutApMillis

C7_UnassociatedTickTries ==
  [][(/\ ev'.op = "loop" /\ ev'.evaluated
      /\ "AP" \notin WiFi.mode
      /\ WiFi.status # WL_CONNECTED)
     => (/\ ev'.tried
         /\ ("connected" \notin ev'.log => (ev'.apStart <=> createFallbackAP)))]_vars

\* C8 as stated: the radio mode is always one of OFF, STATION, ACCESS_POINT.
C8_RolesExclusive == WiFi.mode \in {WIFI_OFF, WIFI_STA, WIFI_AP}

\* C8 as amended: the radio gets both roles only in a step that starts the
\* soft AP or scans, and stopSoftAP, stopClient and every connection attempt
\* leave it with one role at most.
C8_BothRolesOnlyByApStartOrScan ==
  [][/\ (WiFi'.mode = WIFI_AP_STA /\ WiFi.mode # WIFI_AP_STA)
        => (ev'.apStart \/ ev'.scanned)
     /\ (ev'.op \in {"stopSoftAP", "stopClient"} \/ ev'.began)
        => WiFi'.mode # WIFI_AP_STA]_vars

\* startSoftAP has brought the soft AP up beside the station role.
C8_Witness ==
  /\ ev.op = "startSoftAP"
  /\ "softap_started" \in ev.log
  /\ WiFi.mode = WIFI_AP_STA

\* C9: stopSoftAP while the mode is not WIFI_AP changes nothing; a connected
\* station keeps its mode and its association.
C9_StopSoftApNoOpOutsideAp ==
  [][(ev'.op = "stopSoftAP" /\ WiFi.mode # WIFI_AP)
     => (WiFi' = WiFi /\ dnsServerActive' = dnsServerActive)]_vars

(***************************************************************************)
(* Further properties of the credential store (StoreSpec).                 *)
(***************************************************************************)
\* The table loadFromNVS builds in the current state when the store opens.
Reloaded ==
  loadFromNVS(State("loadFromNVS", Inputs(<<TRUE>>, WL_DISCONNECTED, FALSE))).apList

StoreMutations == {"addWifi", "delWifiId", "delWifiName"}

\* C11: after a successful persisting mutation (addWifi with updateNVS,
\* delWifi by slot or by name) loadFromNVS rebuilds exactly the table in
\* memory, slot by slot, and no removed entry comes back.
C11_ReloadReproducesTable ==
  (ev.op \in StoreMutations /\ ev.ret /\ ev.writes > 0) => Reloaded = apList

\* A removal has been persisted from a table that keeps another entry, and
\* the image still holds what the table holds.
C11_Witness ==
  /\ ev.op = "delWifiId" /\ ev.ret /\ ev.writes > 0
  /\ Populated(apList) > 0
  /\ apList[ev.id] = EmptyCred
  /\ Reloaded = apList

\* The populated slots that hold the name.
Holding(list, name) == {i \in Slots : list[i].apName # "" /\ list[i].apName = name}

\* C12: delWifi(name) on a table where k >= 1 populated slots hold the name
\* clears those k slots, leaves the others as they were and takes k off
\* configuredSSIDs.
C12_DelByNameDecrements ==
  [][(ev'.op = "delWifiName" /\ Holding(apList, ev'.name) # {})
     => (/\ \A i \in Slots :
              apList'[i] = IF i \in Holding(apList, ev'.name) THEN EmptyCred
                           ELSE apList[i]
         /\ configuredSSIDs' =
              configuredSSIDs - Cardinality(Holding(apList, ev'.name)))]_vars

\* C13: delWifi(name) with no populated slot holding the name, the empty
\* string included, returns false and changes neither the table nor the
\* persisted image.
C13_DelByNameNotFound ==
  [][(ev'.op = "delWifiName" /\ Holding(apList, ev'.name) = {})
     => (~ev'.ret /\ apList' = apList /\ nvs' = nvs)]_vars

(***************************************************************************)
(* Further properties of the radio methods and commands (Spec).            *)
(***************************************************************************)
ConnectOps == {"tryConnectSpecific", "connectCommand"}

\* C14: tryConnectSpecific and the /connect command with an index of
\* WIFIMANAGER_MAX_APS or more return false and do nothing to the radio: the
\* mode, the AP session and the association stay and no connection is begun.
C14_OutOfRangeIdNoRadioAction ==
  [][(ev'.op \in ConnectOps /\ ev'.id >= WIFIMANAGER_MAX_APS)
     => (/\ ~ev'.ret /\ ~ev'.began
         /\ WiFi' = WiFi
         /\ dnsServerActive' = dnsServerActive
         /\ startApTimeMillis' = startApTimeMillis)]_vars

\* An out-of-range id has been refused while the soft AP was serving.
C14_Witness ==
  /\ ev.op = "tryConnectSpecific"
  /\ ev.id >= WIFIMANAGER_MAX_APS
  /\ "invalid_id" \in ev.log
  /\ WiFi.mode = WIFI_AP /\ dnsServerActive

(***************************************************************************)
(* addWifi and delWifi(uint8_t) slot by slot (StoreSpec).                  *)
(***************************************************************************)
\* The empty slot with the lowest index.
LowestEmpty(list) ==
  CHOOSE i \in Slots : list[i].apName = "" /\ \A j \in Slots : j < i => list[j].apName # ""

\* C15: addWifi with a name whose length is outside 1..31 or a secret longer
\* than 63 returns false and changes no slot; with valid arguments and an
\* empty slot it writes the pair into the empty slot of lowest index and
\* changes no other slot.
C15_AddWifiSlotRule ==
  [][ev'.op = "addWifi"
     => IF ~(ValidName(ev'.name) /\ ValidPass(ev'.pass))
        THEN ~ev'.ret /\ apList' = apList
        ELSE ~Full(apList)
             => apList' = [apList EXCEPT ![LowestEmpty(apList)] =
                                            Cred(ev'.name, ev'.pass)]]_vars

\* addWifi has filled a hole below a populated slot.
C15_Witness ==
  /\ ev.op = "addWifi" /\ "slot_found" \in ev.log
  /\ apList[0] = Cred(ev.name, ev.pass)
  /\ apList[1].apName # "" /\ apList[1].apName # ev.name

\* C16 as stated: delWifi(index) with index >= capacity returns false and
\* changes nothing; with an index in range it clears that slot and no other,
\* persists the table and returns true, also when the slot was empty.
C16_DelByIdPersists ==
  [][ev'.op = "delWifiId"
     => IF ev'.id >= WIFIMANAGER_MAX_APS
        THEN ~ev'.ret /\ apList' = apList /\ nvs' = nvs
        ELSE /\ apList' = [apList EXCEPT ![ev'.id] = EmptyCred]
             /\ ev'.ret
             /\ nvs' = apList']_vars

\* C16 as amended: in range the slot is cleared in memory in any case; the
\* table is persisted and true returned when the store opens, nothing is
\* written and false returned when it does not.
C16_DelByIdPersistsIfStoreOpens ==
  [][ev'.op = "delWifiId"
     => IF ev'.id >= WIFIMANAGER_MAX_APS
        THEN ~ev'.ret /\ apList' = apList /\ nvs' = nvs
        ELSE /\ apList' = [apList EXCEPT ![ev'.id] = EmptyCred]
             /\ IF ev'.writes > 0 THEN ev'.ret /\ nvs' = apList'
                ELSE ~ev'.ret /\ nvs' = nvs /\ "nvs_write_failed" \in ev'.log]_vars

\* delWifi(index) has cleared a populated slot beside another populated one
\* and persisted the table.
C16_Witness ==
  /\ ev.op = "delWifiId" /\ ev.ret /\ ev.writes > 0
  /\ ev.id < WIFIMANAGER_MAX_APS
  /\ apList[ev.id] = EmptyCred
  /\ nvs[ev.id] = EmptyCred
  /\ Populated(apList) > 0
  /\ nvs = apList

(***************************************************************************)
(* Start-up without a configured network (Spec).                           *)
(***************************************************************************)
\* The step is the forced first run of loop, taken straight after
\* startBackgroundTask.
FirstTickAfterStart ==
  ev.op = "startBackgroundTask" /\ wifiTask = "first" /\ ev'.op = "loop"

C18_AttemptLeavesCleanRadio ==
  [][ev'.began
     => IF "connected" \in ev'.log
        THEN WiFi'.mode = WIFI_STA /\ ~dnsServerActive'
        ELSE WiFi'.status # WL_CONNECTED]_vars

(***************************************************************************)
(* Termination of tryConnect (WaitSpec).                                   *)
(***************************************************************************)
\* C19: every call of tryConnect returns, also when WiFi.scanComplete()
\* goes on answering WIFI_SCAN_RUNNING: a call waiting for the scan result
\* leads to the call having returned.
C19_TryConnectReturns == (ev.op = "scanWait") ~> (ev.op = "tryConnect")

(***************************************************************************)
(* Commands of the HTTP control surface and the radio (Spec).              *)
(***************************************************************************)
\* The commands that reach the radio methods: POST /connect, /softap/start,
\* /softap/stop and /client/stop.
CommandOps == {"connectCommand", "startSoftAP", "stopSoftAP", "stopClient"}

\* C20: no command does radio work in the caller's context: a command step
\* neither changes the radio nor begins a connection attempt; that is left
\* to the background task.
C20_CommandsLeaveRadioToTask ==
  [][ev'.op \in CommandOps => (WiFi' = WiFi /\ ~ev'.began)]_vars

(***************************************************************************)
(* Teardown (TeardownSpec).                                                *)
(***************************************************************************)
TaskOps == {"loop", "dnsBgTask"}
RadioStatements == {"stopSoftAP", "stopClient"}

\* C21: stopWifi(true) clears the DNS flag first and touches neither the
\* tasks nor the radio in that step; the tasks are deleted in its second
\* step, before any radio teardown; the radio is torn down only with the
\* tasks gone; and no step of a background task is taken once the radio
\* teardown has begun.
C21_TeardownOrder ==
  [][/\ (ev'.op = "stopWifi" /\ teardown.done = 0)
          => (~dnsServerActive' /\ WiFi' = WiFi /\ wifiTask' = wifiTask)
     /\ (ev'.op = "stopWifi" /\ wifiTask # "none" /\ wifiTask' = "none")
          => (teardown.done = 1 /\ ~teardown.radio /\ WiFi' = WiFi)
     /\ (ev'.op = "stopWifi" /\ teardown.killTask
         /\ ev'.log \cap RadioStatements # {})
          => (wifiTask = "none" /\ teardown.done >= 2)
     /\ (ev'.op \in TaskOps) => ~(teardown.killTask /\ teardown.radio)]_vars

\* stopWifi(true) has stopped a running soft AP after deleting the tasks
\* that startBackgroundTask had created.
C21_Witness ==
  /\ ev.op = "stopWifi" /\ "softap_stopped" \in ev.log
  /\ teardown.killTask /\ teardown.radio /\ teardown.done = 3
  /\ wifiTask = "none"
  /\ apList # EmptyTable
  /\ ~dnsServerActive /\ WiFi.mode = WIFI_OFF

(***************************************************************************)
(* The tick after a stop command (StopFairSpec).                           *)
(***************************************************************************)
StopOps == {"stopSoftAP", "stopClient"}

\* C22: after a stopSoftAP or stopClient command, with a credential
\* configured and the background task running, a later tick calls tryConnect
\* and gets past its configuration check, to the scan or the attempt.
C22_StopCommandLeadsToAttempt ==
  (ev.op \in StopOps /\ configuredSSIDs # 0 /\ wifiTask # "none")
  ~> (ev.op = "loop" /\ ev.tried /\ "no_ssids" \notin ev.log)

\* A stop command has ended a station connection while the task runs.
C22_Witness ==
  /\ ev.op = "stopClient"
  /\ configuredSSIDs # 0 /\ wifiTask = "running"
  /\ WiFi.mode = WIFI_OFF /\ WiFi.status = WL_DISCONNECTED
  /\ lastWifiCheckMillis = millis

(***************************************************************************)
(* The /scan command (ScanFairSpec).                                       *)
(***************************************************************************)
\* C23: called again and again, the /scan command returns results or starts
\* a new scan again and again: it never ends up answering with nothing for
\* ever.
C23_ScanNeverStuck ==
  []<>(ev.op = "scanCommand" /\ ev.log \cap {"scanning", "results"} # {})

(***************************************************************************)
(* The /configlist command (ListSpec).                                     *)
(***************************************************************************)
\* The tables that differ from `list` at most in what their non-empty
\* secrets are.
SecretVariants(list) ==
  { other \in [Slots -> ListCreds] :
      \A i \in Slots : /\ other[i].apName = list[i].apName
                       /\ (other[i].apPass = "") = (list[i].apPass = "") }

\* C24: the list sent has one record per populated slot and none for an
\* empty one, in slot order, each with the slot index, the name and a boolean
\* that is true exactly when the secret is not empty; every table that
\* differs only in what its non-empty secrets are gives the same list.
C24_ConfigListHidesSecrets ==
  [][ev'.op = "configList"
     => LET body == ev'.body
        IN /\ \A other \in SecretVariants(apList) : configList(other, 0) = body
           /\ Len(body) = Populated(apList)
           /\ \A k \in 1 .. Len(body) :
                 /\ body[k].id \in Slots
                 /\ apList[body[k].id].apName # ""
                 /\ body[k].apName = apList[body[k].id].apName
                 /\ body[k].apPass = (apList[body[k].id].apPass # "")
                 /\ \A l \in 1 .. Len(body) : k < l => body[k].id < body[l].id]_vars

\* The list has been sent for a table with an empty slot, a network with a
\* secret and an open one.
C24_Witness ==
  /\ ev.op = "configList"
  /\ Len(ev.body) = 2
  /\ apList[0] = EmptyCred
  /\ ev.body[1].apPass /\ ~ev.body[2].apPass

(***************************************************************************)
(* loadFromNVS with the store unavailable (StoreSpec).                     *)
(***************************************************************************)
\* C25: a loadFromNVS that fails to open the store returns false and leaves
\* the no-credentials state: no slot populated and the counter 0 (so that
\* configAvailable() is false), whatever the table held before.
C25_FailedLoadLeavesNoCredentials ==
  [][(ev'.op = "loadFromNVS" /\ "nvs_unavailable" \in ev'.log)
     => (/\ ~ev'.ret
         /\ configuredSSIDs' = 0
         /\ Populated(apList') = 0)]_vars

(***************************************************************************)
(* startSoftAP while the soft AP runs (Spec).                              *)
(***************************************************************************)
\* C26: startSoftAP called while the soft AP is running returns true, does
\* not start the AP again and leaves startApTimeMillis as it was.
C26_StartSoftApIdempotent ==
  [][(ev'.op = "startSoftAP" /\ "AP" \in WiFi.mode)
     => (/\ ev'.ret
         /\ "softap_started" \notin ev'.log
         /\ startApTimeMillis' = startApTimeMillis
         /\ WiFi' = WiFi)]_vars

(***************************************************************************)
(* Secretless attempts (SelectSpec).                                       *)
(***************************************************************************)
\* The network `ssid` is in range and only as a closed one.
ClosedOnly(scan, ssid) ==
  /\ \E x \in 1 .. Len(scan) : scan[x].ssid = ssid
  /\ \A x \in 1 .. Len(scan) : scan[x].ssid = ssid => scan[x].enc # WIFI_AUTH_OPEN

\* C27: no connection attempt is begun with an empty secret to a network
\* that is in range as a closed one.
C27_NoSecretlessAttemptOnClosed ==
  [][ev'.began
     => ~(/\ ev'.slot \in Slots
          /\ apList[ev'.slot].apName # ""
          /\ apList[ev'.slot].apPass = ""
          /\ ClosedOnly(air, apList[ev'.slot].apName))]_vars

(***************************************************************************)
(* The boundary of the AP timeout (Spec).                                  *)
(***************************************************************************)
\* The AP session has lasted no longer than timeoutApMillis (the clock has
\* not wrapped since it began).
WithinTimeout ==
  millis >= startApTimeMillis /\ millis - startApTimeMillis <= timeoutApMillis

\* C28: a tick in AP mode with no client attached, not more than
\* timeoutApMillis after the session began, does not stop the AP.
C28_NoTimeoutWithinDuration ==
  [][(/\ ev'.op = "loop" /\ ev'.evaluated
      /\ WiFi.mode = WIFI_AP /\ WiFi.stations = 0
      /\ WithinTimeout)
     => (WiFi'.mode = WIFI_AP /\ dnsServerActive' = dnsServerActive)]_vars

(***************************************************************************)
(* The tick of an associated station (TickSpec).                           *)
(***************************************************************************)
\* C29: a tick in mode WIFI_STA while the station is associated, to a stored
\* name or to another, changes neither the radio nor the table, the store or
\* the AP session, and calls neither tryConnect, a scan, a connection
\* attempt nor startSoftAP.
C29_AssociatedTickIsNoOp ==
  [][(/\ ev'.op = "loop"
      /\ WiFi.mode = WIFI_STA /\ WiFi.status = WL_CONNECTED)
     => (/\ WiFi' = WiFi
         /\ apList' = apList /\ nvs' = nvs
         /\ configuredSSIDs' = configuredSSIDs
         /\ dnsServerActive' = dnsServerActive
         /\ startApTimeMillis' = startApTimeMillis
         /\ ~ev'.tried /\ ~ev'.scanned /\ ~ev'.began /\ ~ev'.apStart)]_vars

\* A tick has found the station associated to a name that is no longer
\* stored, and has left it associated.
C29_Witness ==
  /\ ev.op = "loop" /\ ev.evaluated
  /\ "unknown_ssid" \in ev.log
  /\ WiFi.mode = WIFI_STA /\ WiFi.status = WL_CONNECTED
  /\ WiFi.SSID # ""
  /\ \A i \in Slots : apList[i].apName # WiFi.SSID

(***************************************************************************)
(* The check interval of loop (LoopSpec).                                  *)
(***************************************************************************)
\* The time since the last check, the clock having wrapped at most once
\* since then.
SinceLastCheck ==
  IF millis >= lastWifiCheckMillis THEN millis - lastWifiCheckMillis
  ELSE millis + MillisWrap - lastWifiCheckMillis

\* C30: a loop call that is not forced and comes less than
\* intervalWifiCheckMillis after the last check evaluates nothing and
\* changes no state; a forced call, or one that comes later, evaluates the
\* rule and sets lastWifiCheckMillis to the current time.
C30_TickOnlyWhenDue ==
  [][ev'.op = "loop"
     => IF wifiTask # "first" /\ SinceLastCheck < intervalWifiCheckMillis
        THEN /\ ~ev'.evaluated
             /\ UNCHANGED <<apList, configuredSSIDs, nvs, createFallbackAP,
                            lastWifiCheckMillis, startApTimeMillis,
                            dnsServerActive, WiFi>>
        ELSE /\ ev'.evaluated
             /\ lastWifiCheckMillis' = millis]_vars

(***************************************************************************)
(* The soft AP without stored credentials (Spec).                          *)
(***************************************************************************)
\* C31: while no network is configured, no tick of the background task
\* stops a running soft AP, with or without clients, before or after the
\* timeout.
C31_ApStaysWithoutConfig ==
  [][(/\ ev'.op = "loop"
      /\ WiFi.mode = WIFI_AP
      /\ configuredSSIDs = 0 /\ Populated(apList) = 0)
     => WiFi'.mode = WIFI_AP]_vars

(***************************************************************************)
(* Writes of delWifi(String) (StoreSpec).                                  *)
(***************************************************************************)
\* C32: a delWifi(name) that returns true has written the table to the
\* store exactly once, however many slots held the name, and the image it
\* leaves is the table with all of those slots cleared.
C32_DelByNameWritesOnce ==
  [][(ev'.op = "delWifiName" /\ ev'.ret /\ Holding(apList, ev'.name) # {})
     => (/\ ev'.writes = 1
         /\ nvs' = [i \in Slots |->
                      IF apList'[i].apName = "" THEN EmptyCred
                      ELSE apList'[i]])]_vars

(***************************************************************************)
(* Credential commands during a connection attempt (RaceSpec).             *)
(***************************************************************************)
\* C33: the connection attempt of a tryConnect is made with the name and
\* the secret the chosen slot held when tryConnect chose it, whatever add
\* and delete commands arrive in between.
C33_AttemptUsesChosenCredential ==
  [][(ev.op = "chosen" /\ ev'.op = "tryConnect" /\ ev'.began)
     => (/\ ev'.slot = ev.id
         /\ apList[ev.id] = Cred(ev.name, ev.pass))]_vars

(***************************************************************************)
(* Radio commands during a connection attempt (OverlapSpec).               *)
(***************************************************************************)
\* C34: no command of the control surface runs while a tryConnect of the
\* background task is in flight: between tryConnect's choice and its
\* connection attempt nothing but tryConnect itself touches the radio, the
\* DNS flag or the AP timer.
C34_NoCommandDuringAttempt ==
  [][ev.op = "chosen"
     => (\/ ev'.op = "tryConnect"
         \/ /\ WiFi' = WiFi
            /\ dnsServerActive' = dnsServerActive
            /\ startApTimeMillis' = startApTimeMillis)]_vars

(***************************************************************************)
(* The DNS responder and the access point (Spec).                          *)
(***************************************************************************)
\* C35: dnsServerActive is set only while the access point is up: in every
\* state where the flag is set the radio mode includes the AP role, so
\* every operation that takes the AP role away leaves the flag cleared.
C35_DnsOnlyWithAp == dnsServerActive => "AP" \in WiFi.mode

(***************************************************************************)
(* Connection attempts on an empty slot (Spec).                            *)
(***************************************************************************)
\* C36: tryConnectSpecific and the /connect command, given the index of a
\* slot that is empty, stop no soft AP, do not change the radio mode and
\* call WiFi.begin for no network.
C36_EmptySlotNoRadioAction ==
  [][(/\ ev'.op \in ConnectOps
      /\ ev'.id \in Slots
      /\ apList[ev'.id].apName = "")
     => (/\ WiFi' = WiFi
         /\ dnsServerActive' = dnsServerActive
         /\ ~ev'.began)]_vars

(***************************************************************************)
(* A failed addWifi (StoreSpec).                                           *)
(***************************************************************************)
\* C37: an addWifi that returns false, whatever the reason, leaves the table
\* and configuredSSIDs as they were before the call.
C37_FailedAddChangesNothing ==
  [][(ev'.op = "addWifi" /\ ~ev'.ret)
     => (apList' = apList /\ configuredSSIDs' = configuredSSIDs)]_vars

(***************************************************************************)
(* After stopWifi (StopWifiFairSpec).                                      *)
(***************************************************************************)
\* stopWifi(killTask) has run to its end.
Stopped(killTask) ==
  /\ ev.op = "stopWifi" /\ teardown = NoTeardown
  /\ "stopClient" \in ev.log
  /\ ("killTask" \in ev.log) = killTask

ExternalOps == {"startBackgroundTask", "stopWifi"}

C39_DeleteOnlyLiveTasks ==
  [][(ev'.op = "stopWifi" /\ "kill" \in ev'.log) => wifiTask # "none"]_vars

====
